---- MODULE Spec2Model ----
(***************************************************************************)
(* A model of the ntopng prometheus exporter (src/src/main.go): the        *)
(* counter reconciliation (calculateCounterVal), the retry/backoff loops   *)
(* (queryNtopMetrics, enumerateInterfaceIDs), the poll loop (scraper) and  *)
(* the shutdown path of main.                                              *)
(***************************************************************************)
EXTENDS Integers, Sequences, FiniteSets, TLC

(***************************************************************************)
(* Bounds of the model.                                                    *)
(***************************************************************************)
\* width of the unsigned integers of the model (uint64 in the source)
UintBits == 7
\* largest upstream counter value the modelled upstream reports to the poller
MaxVal == 1
\* number of per-interface logical fetches the poller starts in one run
MaxPolls == 5
\* number of polls of one run in which the environment misbehaves (transport
\* errors, a sentinel body, a failing hostname lookup)
MaxFaults == 1
\* the longest interface list the enumerator is given in SpecFilter
MaxListLen == 3
\* per-interface fetches a run of SpecSteady may start
MaxSteadyPolls == 9

UMod == 2 ^ UintBits
Uints == 0 .. (UMod - 1)

(***************************************************************************)
(* Unsigned arithmetic: Go's uint64 subtraction wraps around.              *)
(***************************************************************************)
USub(a, b) == (a - b) % UMod

(***************************************************************************)
(* calculateCounterVal(promMetricVal, ntopMetricValInt), main.go:257-279.  *)
(* Returns <<counterVal, toAdd>>.                                          *)
(***************************************************************************)
calculateCounterValNoResetBranch(promMetricVal, ntopMetricValInt) ==
    IF promMetricVal = ntopMetricValInt
    THEN <<ntopMetricValInt, 0>>
    ELSE <<ntopMetricValInt, USub(ntopMetricValInt, promMetricVal)>>

calculateCounterValAddsOnNoop(promMetricVal, ntopMetricValInt) ==
    IF ntopMetricValInt > promMetricVal
    THEN <<ntopMetricValInt, USub(ntopMetricValInt, promMetricVal)>>
    ELSE <<ntopMetricValInt, ntopMetricValInt>>

calculateCounterVal(promMetricVal, ntopMetricValInt) ==
    IF promMetricVal < ntopMetricValInt
    THEN \* normal incrementing behaviour
         <<ntopMetricValInt, USub(ntopMetricValInt, promMetricVal)>>
    ELSE IF promMetricVal > ntopMetricValInt
    THEN \* the upstream counter was reset
         <<ntopMetricValInt, ntopMetricValInt>>
    ELSE \* equal: a noop
         <<ntopMetricValInt, 0>>

(***************************************************************************)
(* The backoff wait: 1 * int(math.Pow(1.2, float64(retries))),             *)
(* main.go:176 and main.go:245.  1.2^n = 12^n / 10^n is computed exactly   *)
(* on little-endian sequences of decimal digits (12^40 does not fit a      *)
(* machine integer of TLC); int() truncates, so the wait is the            *)
(* number left after dropping the n fractional digits.  For n in 1..40 the *)
(* fractional part of 1.2^n is at least 0.005 away from an integer, far    *)
(* more than the rounding error of float64, so the truncation of the       *)
(* float64 power is the truncation of the exact power.                     *)
(***************************************************************************)
RECURSIVE MulDigits(_, _, _)
MulDigits(digits, k, carry) ==
    IF digits = <<>>
    THEN IF carry = 0 THEN <<>>
         ELSE <<carry % 10>> \o MulDigits(<<>>, k, carry \div 10)
    ELSE LET p == Head(digits) * k + carry
         IN  <<p % 10>> \o MulDigits(Tail(digits), k, p \div 10)

RECURSIVE PowDigits(_, _)
PowDigits(base, n) ==
    IF n = 0 THEN <<1>> ELSE MulDigits(PowDigits(base, n - 1), base, 0)

RECURSIVE DigitsValue(_)
DigitsValue(digits) ==
    IF digits = <<>> THEN 0 ELSE Head(digits) + 10 * DigitsValue(Tail(digits))

\* int(x) of a fixed-point number with `frac` fractional digits
Truncate(digits, frac) ==
    IF Len(digits) <= frac THEN 0
    ELSE DigitsValue(SubSeq(digits, frac + 1, Len(digits)))

\* int(x + 0.5): rounding to the nearest integer instead of truncating
RoundHalfUp(digits, frac) ==
    Truncate(digits, frac)
      + (IF frac >= 1 /\ Len(digits) >= frac /\ digits[frac] >= 5 THEN 1 ELSE 0)

backoffWaitRounded(retries) == 1 * RoundHalfUp(PowDigits(12, retries), retries)

backoffWait(retries) == 1 * Truncate(PowDigits(12, retries), retries)


(***************************************************************************)
(* Program constants.                                                      *)
(***************************************************************************)
\* `for retries < 40`, main.go:168 and main.go:237
MaxRetries == 40
\* the keys of metricsMap, main.go:294-297
Metrics == {"zmq_msg_rcvd", "dropped_flows", "zmq_msg_drops", "zmq_avg_msg_flows"}
\* `if body == "1"`, main.go:334
Sentinel == [text |-> "1", field |-> "", val |-> 0]
\* `return "nil", err`, main.go:147
ErrBody == [text |-> "nil", field |-> "", val |-> 0]
\* the interface the enumerator leaves out, main.go:219
ViewAll == "view:all"
\* os.Hostname() returns "" together with its error
Hostnames == {"host", ""}

(***************************************************************************)
(* The upstream service, as the exporter sees it.                          *)
(***************************************************************************)
Vals == 0 .. MaxVal

\* the `rsp` arrays of interfaces.lua the model draws from
Eth0 == [ifid |-> 0, ifname |-> "eth0"]
Eth1 == [ifid |-> 1, ifname |-> "eth1"]
Eth2 == [ifid |-> 2, ifname |-> "eth2"]
AllIf == [ifid |-> 9, ifname |-> ViewAll]
UpstreamInterfaceLists ==
    { <<>>, <<AllIf>>, <<Eth0, AllIf>>, <<AllIf, Eth1, Eth0>> }

\* a body that is the given text and holds no zmqRecvStats field
Text(t) == [text |-> t, field |-> "", val |-> 0]
\* a data.lua document holding rsp.zmqRecvStats.<field> = val
Payload(field, val) == [text |-> "json", field |-> field, val |-> val]
\* a JSON document without any zmqRecvStats field
EmptyDoc == Text("{}")

\* the bodies data.lua answers with while rsp.zmqRecvStats.<m> is polled
MetricBodies(m) == {Sentinel, EmptyDoc} \cup {Payload(m, v) : v \in Vals}

(***************************************************************************)
(* uint64(gjson.Get(body, "rsp.zmqRecvStats.<metricName>").Int()),         *)
(* main.go:339-341: the field's number, 0 when the body holds no such      *)
(* field or is no JSON at all ("nil", "1").                                *)
(***************************************************************************)
ExtractMetric(b, m) ==
    IF b.text = "json" /\ b.field = m THEN b.val % UMod ELSE 0

(***************************************************************************)
(* The filter of enumerateInterfaceIDsWithRetries, main.go:212-226.        *)
(***************************************************************************)
\* `if ifname != "view:all"`, main.go:219
KeepsEvery(entry) == TRUE

Keeps(entry) == entry.ifname # ViewAll

RECURSIVE FilterInterfaces(_)
FilterInterfaces(rsp) ==
    IF rsp = <<>> THEN <<>>
    ELSE IF Keeps(Head(rsp))
         THEN <<Head(rsp).ifid>> \o FilterInterfaces(Tail(rsp))
         ELSE FilterInterfaces(Tail(rsp))

\* `if body == "1"`, main.go:334
IsSentinelNever(b) == FALSE

IsSentinel(b) == b = Sentinel

\* the loop condition `retries < 40`, main.go:168 and main.go:237
RetryLoopOneMore(r) == r <= MaxRetries

RetryLoopContinues(r) == r < MaxRetries

(***************************************************************************)
(* The metrics sink: CounterVec.WithLabelValues(hostname, ifid).Add(v),    *)
(* main.go:359-370.  A series exists from its first WithLabelValues.       *)
(***************************************************************************)
CounterSet(vec, key, v) ==
    [k \in DOMAIN vec \cup {key} |-> IF k = key THEN v ELSE vec[k]]

CounterAdd(vec, key, v) ==
    [k \in DOMAIN vec \cup {key} |->
        IF k = key THEN (IF key \in DOMAIN vec THEN vec[key] ELSE 0) + v
        ELSE vec[k]]

\* metricsMap[metricName][i] = metricVal, main.go:351 (i counts from 0)
StoreByAppend(slice, idx, v) == Append(slice, v)

StoreTracked(slice, idx, v) == [slice EXCEPT ![idx + 1] = v]

Zeros(n) == [k \in 1 .. n |-> 0]

\* the inner loop's `i++`, main.go:325
NextIndexStays(idx) == idx

NextIndex(idx) == idx + 1

(***************************************************************************)
(* The upstream counter of a pair grows by one per event and may be reset  *)
(* to zero at any time; the exporter sees it only in the documents that    *)
(* report it.  A report of v after a report of s stands for at least       *)
(* v - s further events when v >= s, and for a reset followed by at least  *)
(* v events when v < s.                                                    *)
(***************************************************************************)
Reports(b, m) == b.text = "json" /\ b.field = m

Reported(h, b, m) ==
    IF Reports(b, m)
    THEN [h EXCEPT !.seen = b.val,
                   !.events = @ + (IF b.val >= h.seen THEN b.val - h.seen ELSE b.val)]
    ELSE h

\* the value read at main.go:339-341 was lower than the tracked value
Observed(h, tracked, ntopMetricValInt) ==
    [h EXCEPT !.lower = @ \/ ntopMetricValInt < tracked]

NoHist(n) ==
    [m \in Metrics |-> [k \in 1 .. n |-> [seen |-> 0, events |-> 0, lower |-> FALSE]]]

\* nothing fetched, nothing reconciled for any of n interfaces
NoLog(n) == [m \in Metrics |-> [k \in 1 .. n |-> [fetches |-> 0, recons |-> 0]]]

VARIABLES
    calc,        \* the call of calculateCounterVal of the SpecCalc specification
    backoff,     \* the backoff computations of the SpecBackoff specification
    proc,        \* the process: "running", "exited" (main returned), "fatal" (log.Fatal)
    mainPc,      \* main: "waitsig" (blocked on sigChan), "grace" (sleeping after
                 \*       cancel()), "done" (the process has ended)
    cancelled,   \* ctx.Done() is closed
    pc,          \* scraper: "enumerate", "init", "select", "sleep", "metric",
                 \*          "iface", "fetch", "handle", "stopped" (it returned),
                 \*          "gone" (the process has ended)
    interfaces,  \* scraper's interfaces slice
    scraperErr,  \* scraper's err: the error of the last logical fetch it got back
    metricsMap,  \* scraper's metricsMap (the tracked state)
    todo,        \* the keys `range metricsMap` has yet to yield in this cycle
    metricName,  \* the key of the current outer iteration
    i,           \* the index of the inner loop
    retries,     \* the running logical fetch: its locals
    waitTime,
    body,
    err,
    fpc,         \* the logical fetch: "request" (a request is out), "sleep" (in
                 \*          its backoff sleep), "idle" (none is running)
    requests,    \* requests sent by the running logical fetch
    sleeps,      \* time.Sleep calls of the running logical fetch
    waited,      \* seconds the running logical fetch has slept in all
    pub,         \* the four CounterVecs: metric -> (<<hostname, ifid>> -> value)
    deltas,      \* per pair, the sum of the toAdd returned by calculateCounterVal
    hist,        \* per pair, the upstream counter as it was last reported, the
                 \*          least number of upstream events the reports allow, and
                 \*          whether a value lower than the tracked one was read
    prevFailed,  \* the logical fetch that returned last met a failed request
    cycleLog,    \* per pair, the fetches begun and the reconciliations done
                 \*          since the current cycle began
    polls,       \* per-interface logical fetches started so far
    faults,      \* polls in which the environment misbehaved so far
    upstream     \* the interfaces the upstream service lists

fetchVars == <<retries, waitTime, body, err, fpc, requests, sleeps, waited>>
loopVars == <<pc, interfaces, scraperErr, metricsMap, todo, metricName, i>>
mainVars == <<mainPc, cancelled>>
sinkVars == <<pub, deltas, hist, prevFailed>>
envVars == <<polls, faults>>
pureVars == <<calc, backoff>>
vars == <<calc, backoff, proc, mainPc, cancelled, pc, interfaces, scraperErr, metricsMap,
          todo, metricName, i, retries, waitTime, body, err, fpc, requests,
          sleeps, waited, pub, deltas, hist, prevFailed, cycleLog, polls, faults,
          upstream>>

NoCalc == [pc |-> "off", prev |-> 0, curr |-> 0, counterVal |-> 0, toAdd |-> 0]
NoBackoff == [pc |-> "off", n |-> 0, m |-> 0, waitN |-> 0, waitM |-> 0]
NoMetric == "none"
NoBody == [text |-> "", field |-> "", val |-> 0]
NoErr == "none"
TransportErr == "transport"


(***************************************************************************)
(* The state at process start: main has started the scraper goroutine,     *)
(* which is about to call enumerateInterfaceIDs; nothing is published.     *)
(***************************************************************************)
InitSys ==
    /\ proc = "running"
    /\ mainPc = "waitsig"
    /\ cancelled = FALSE
    /\ pc = "enumerate"
    /\ interfaces = <<>>
    /\ scraperErr = NoErr
    /\ metricsMap = [m \in {} |-> <<>>]
    /\ todo = {}
    /\ metricName = NoMetric
    /\ i = 0
    /\ retries = 0
    /\ waitTime = 0
    /\ body = NoBody
    /\ err = NoErr
    /\ fpc = "request"
    /\ requests = 0
    /\ sleeps = 0
    /\ waited = 0
    /\ pub = [m \in Metrics |-> [k \in {} |-> 0]]
    /\ deltas = [m \in {} |-> <<>>]
    /\ hist = [m \in {} |-> <<>>]
    /\ prevFailed = FALSE
    /\ cycleLog = [m \in {} |-> <<>>]
    /\ polls = 0
    /\ faults = 0

Init ==
    /\ InitSys
    /\ calc = NoCalc /\ backoff = NoBackoff
    /\ upstream \in UpstreamInterfaceLists

\* The process ends: its goroutines, their memory and the scrape endpoint
\* are gone.
ProcessEnds(how) ==
    /\ proc' = how
    /\ mainPc' = "done"
    /\ cancelled' = cancelled
    /\ pc' = "gone"
    /\ interfaces' = <<>>
    /\ scraperErr' = NoErr
    /\ metricsMap' = [m \in {} |-> <<>>]
    /\ todo' = {}
    /\ metricName' = NoMetric
    /\ i' = 0
    /\ retries' = 0
    /\ waitTime' = 0
    /\ body' = NoBody
    /\ err' = NoErr
    /\ fpc' = "idle"
    /\ requests' = 0
    /\ sleeps' = 0
    /\ waited' = 0
    /\ pub' = [m \in Metrics |-> [k \in {} |-> 0]]
    /\ deltas' = [m \in {} |-> <<>>]
    /\ hist' = [m \in {} |-> <<>>]
    /\ prevFailed' = FALSE
    /\ cycleLog' = [m \in {} |-> <<>>]
    /\ UNCHANGED <<polls, faults, calc, backoff, upstream>>

\* `var retries int`, main.go:163 and 232: every call has its own counter
InitialRetriesRemembered(failedBefore) == IF failedBefore THEN 1 ELSE 0

InitialRetries(failedBefore) == 0

\* a logical fetch begins: `var retries int; var body string; var err error`
FetchBegins ==
    /\ retries' = InitialRetries(prevFailed)
    /\ waitTime' = 0
    /\ body' = NoBody
    /\ err' = NoErr
    /\ fpc' = "request"
    /\ requests' = 0
    /\ sleeps' = 0
    /\ waited' = 0

\* the locals of a returned logical fetch are dead once the caller used them
FetchForgotten ==
    /\ retries' = 0
    /\ waitTime' = 0
    /\ body' = NoBody
    /\ err' = NoErr
    /\ fpc' = "idle"
    /\ requests' = 0
    /\ sleeps' = 0
    /\ waited' = 0

\* The else branch of either retry loop, main.go:172-181 and 241-250: count
\* the failure, compute the wait and go to sleep.
LoopRetriesConstantWait ==
    /\ retries' = retries + 1
    /\ waitTime' = 1
    /\ fpc' = "sleep"
    /\ sleeps' = sleeps + 1
    /\ waited' = waited + 1

LoopRetries ==
    /\ retries' = retries + 1
    /\ waitTime' = backoffWait(retries + 1)
    /\ fpc' = "sleep"
    /\ sleeps' = sleeps + 1
    /\ waited' = waited + backoffWait(retries + 1)

\* The break of either retry loop, main.go:170-171 and 239-240.
LoopBreaks ==
    /\ fpc' = "idle"
    /\ UNCHANGED <<retries, waitTime, sleeps, waited>>

\* `if err == nil`, main.go:239
EnumBreaks(e) == e = NoErr

\* `if err == nil`, main.go:170: the body plays no part
QueryBreaksOnPayload(b, e) == e = NoErr /\ b # Sentinel

QueryBreaks(b, e) == e = NoErr

\* what enumerateInterfaceIDsWithRetries returns, main.go:200-226: <<interfaces, err>>
EnumResults ==
    {<<(<<>>), TransportErr>>, <<FilterInterfaces(upstream), NoErr>>}

\* what queryNtopMetricsWithRetries returns, main.go:142-158: <<body, err>>
QueryResults(m) ==
    {<<ErrBody, TransportErr>>} \cup {<<bd, NoErr>> : bd \in MetricBodies(m)}

(***************************************************************************)
(* enumerateInterfaceIDs, main.go:230-255, one attempt of its loop:        *)
(* enumerateInterfaceIDsWithRetries fails at client.Do, dies in log.Fatal  *)
(* at ReadAll, or returns the filtered list, which ends the loop.          *)
(***************************************************************************)
EnumAttempt ==
    /\ proc = "running" /\ pc = "enumerate" /\ fpc = "request"
    /\ \/ ProcessEnds("fatal")
       \/ \E r \in EnumResults :
            /\ interfaces' = r[1]
            /\ err' = r[2]
            /\ requests' = requests + 1
            /\ IF EnumBreaks(r[2])
               THEN LoopBreaks /\ pc' = "init"
               ELSE LoopRetries /\ pc' = pc
            /\ UNCHANGED <<body, proc, mainVars, scraperErr, metricsMap, todo,
                           metricName, i, sinkVars, cycleLog, envVars, pureVars, upstream>>

\* time.Sleep returns, main.go:249; the loop condition is tested again and
\* the function returns (nil, err) when it fails, main.go:237 and 253.
EnumBackoffDone ==
    /\ proc = "running" /\ pc = "enumerate" /\ fpc = "sleep"
    /\ IF RetryLoopContinues(retries)
       THEN /\ fpc' = "request"
            /\ UNCHANGED <<pc, interfaces>>
       ELSE /\ fpc' = "idle"
            /\ pc' = "init"
            /\ interfaces' = <<>>
    /\ UNCHANGED <<retries, waitTime, body, err, requests, sleeps, waited>>
    /\ UNCHANGED <<proc, mainVars, scraperErr, metricsMap, todo, metricName, i,
                   sinkVars, cycleLog, envVars, pureVars, upstream>>

\* `if err != nil { log.Println(...) }`, main.go:287-289: the error of the
\* enumeration is logged and the scraper goes on
EnumErrorIsFatalWhenSet(e) == e # NoErr

EnumErrorIsFatal(e) == FALSE

\* scraper, main.go:285-305: take the result of the enumeration, log the
\* error if any, build metricsMap with one zero per enumerated interface for
\* each of the four metrics.
InitMaps ==
    /\ proc = "running" /\ pc = "init"
    /\ IF EnumErrorIsFatal(err)
       THEN ProcessEnds("fatal")
       ELSE /\ scraperErr' = err
            /\ prevFailed' = (retries > 0)
            /\ metricsMap' = [m \in Metrics |-> Zeros(Len(interfaces))]
            /\ deltas' = [m \in Metrics |-> Zeros(Len(interfaces))]
            /\ hist' = NoHist(Len(interfaces))
            /\ cycleLog' = NoLog(Len(interfaces))
            /\ pc' = "select"
            /\ FetchForgotten
            /\ UNCHANGED <<proc, mainVars, interfaces, todo, metricName, i, pub,
                           envVars, pureVars, upstream>>


(***************************************************************************)
(* scraper's loop, main.go:307-376.                                        *)
(***************************************************************************)
\* the select of main.go:308-312: ctx.Done() wins whenever it is closed,
\* the default branch runs only when it is not.
SelectIgnoresDone(done) == "sleep"

SelectBranch(done) == IF done THEN "stopped" ELSE "sleep"

Select ==
    /\ proc = "running" /\ pc = "select"
    /\ pc' = SelectBranch(cancelled)
    /\ UNCHANGED <<proc, mainVars, interfaces, scraperErr, metricsMap, todo,
                   metricName, i, fetchVars, sinkVars, cycleLog, envVars, pureVars, upstream>>

\* time.Sleep(2 * time.Second) returns, main.go:317; `range metricsMap`
\* begins: it will yield every key once, in an order the runtime picks.
CycleBegins ==
    /\ proc = "running" /\ pc = "sleep"
    /\ todo' = DOMAIN metricsMap
    /\ cycleLog' = NoLog(Len(interfaces))
    /\ pc' = "metric"
    /\ UNCHANGED <<proc, mainVars, interfaces, scraperErr, metricsMap,
                   metricName, i, fetchVars, sinkVars, envVars, pureVars, upstream>>

\* the outer loop, main.go:322: the next key, or the end of the cycle
NextMetric ==
    /\ proc = "running" /\ pc = "metric"
    /\ IF todo = {}
       THEN /\ pc' = "select"
            /\ UNCHANGED <<todo, metricName, i>>
       ELSE \E m \in todo :
                /\ metricName' = m
                /\ todo' = todo \ {m}
                /\ i' = 0
                /\ pc' = "iface"
    /\ UNCHANGED <<proc, mainVars, interfaces, scraperErr, metricsMap,
                   fetchVars, sinkVars, cycleLog, envVars, pureVars, upstream>>

\* the inner loop, main.go:325-329: the next interface is fetched, or the
\* outer loop goes on
NextIfaceUpTo(cap) ==
    /\ proc = "running" /\ pc = "iface"
    /\ IF i < Len(interfaces)
       THEN /\ polls < cap
            /\ polls' = polls + 1
            /\ cycleLog' = [cycleLog EXCEPT ![metricName][i + 1].fetches = @ + 1]
            /\ pc' = "fetch"
            /\ FetchBegins
            /\ UNCHANGED <<metricName, i>>
       ELSE /\ pc' = "metric"
            /\ metricName' = NoMetric
            /\ i' = 0
            /\ UNCHANGED <<polls, fetchVars, cycleLog>>
    /\ UNCHANGED <<proc, mainVars, interfaces, scraperErr, metricsMap, todo,
                   sinkVars, faults, pureVars, upstream>>

NextIface == NextIfaceUpTo(MaxPolls)

\* The environment may misbehave in this poll: it already did (the fetch met
\* a transport error), or the run has a faulty poll left.
FaultAllowed == retries > 0 \/ faults < MaxFaults
FaultCounted == faults' = IF retries = 0 THEN faults + 1 ELSE faults

(***************************************************************************)
(* queryNtopMetrics, main.go:162-186, one attempt of its loop:             *)
(* queryNtopMetricsWithRetries fails at client.Do and returns "nil" with   *)
(* the error, dies in log.Fatal at ReadAll, or returns the body, which     *)
(* ends the loop.                                                          *)
(***************************************************************************)
QueryAttempt ==
    /\ proc = "running" /\ pc = "fetch" /\ fpc = "request"
    /\ \/ ProcessEnds("fatal")
       \/ \E r \in QueryResults(metricName) :
            /\ IF r[2] = TransportErr \/ r[1] = Sentinel
               THEN FaultAllowed /\ FaultCounted
               ELSE faults' = faults
            /\ body' = r[1]
            /\ err' = r[2]
            /\ requests' = requests + 1
            /\ IF QueryBreaks(r[1], r[2])
               THEN LoopBreaks /\ pc' = "handle"
               ELSE LoopRetries /\ pc' = pc
            /\ UNCHANGED <<proc, mainVars, interfaces, scraperErr, metricsMap,
                           todo, metricName, i, sinkVars, cycleLog, polls, pureVars, upstream>>

\* time.Sleep returns, main.go:180; the loop condition is tested again and
\* the function returns (body, err) when it fails, main.go:168 and 184.
QueryBackoffDone ==
    /\ proc = "running" /\ pc = "fetch" /\ fpc = "sleep"
    /\ IF RetryLoopContinues(retries)
       THEN /\ fpc' = "request"
            /\ pc' = pc
       ELSE /\ fpc' = "idle"
            /\ pc' = "handle"
    /\ UNCHANGED <<retries, waitTime, body, err, requests, sleeps, waited>>
    /\ UNCHANGED <<proc, mainVars, interfaces, scraperErr, metricsMap, todo,
                   metricName, i, sinkVars, cycleLog, envVars, pureVars, upstream>>

(***************************************************************************)
(* scraper, main.go:330-371, what is done with the result of the fetch:    *)
(* an error is logged and nothing else; the sentinel body skips the pair;  *)
(* any other body is parsed, reconciled against metricsMap[metricName][i], *)
(* stored, and the delta is added to the series of (hostname, ifid), where *)
(* hostname is "" when os.Hostname() fails (which is logged, nothing else).*)
(***************************************************************************)
Handle ==
    /\ proc = "running" /\ pc = "handle"
    /\ IF IsSentinel(body)
       THEN UNCHANGED <<metricsMap, pub, deltas, hist, cycleLog, faults>>
       ELSE LET ntopMetricValInt == ExtractMetric(body, metricName)
                res == calculateCounterVal(metricsMap[metricName][i + 1],
                                           ntopMetricValInt)
                metricVal == res[1]
                toAdd == res[2]
            IN  /\ metricsMap' = [metricsMap EXCEPT ![metricName] =
                                    StoreTracked(@, i, metricVal)]
                /\ deltas' = [deltas EXCEPT ![metricName][i + 1] = @ + toAdd]
                /\ hist' = [hist EXCEPT ![metricName][i + 1] =
                              Observed(Reported(@, body, metricName),
                                       metricsMap[metricName][i + 1], ntopMetricValInt)]
                /\ cycleLog' = [cycleLog EXCEPT ![metricName][i + 1].recons = @ + 1]
                /\ \E hostname \in Hostnames :
                     /\ hostname = "" => FaultAllowed
                     /\ IF hostname = "" THEN FaultCounted ELSE faults' = faults
                     /\ pub' = [pub EXCEPT ![metricName] =
                                  CounterAdd(@, <<hostname, interfaces[i + 1]>>, toAdd)]
    /\ scraperErr' = err
    /\ prevFailed' = (retries > 0)
    /\ i' = NextIndex(i)
    /\ pc' = "iface"
    /\ FetchForgotten
    /\ UNCHANGED <<proc, mainVars, interfaces, todo, metricName, polls, pureVars, upstream>>

(***************************************************************************)
(* main, main.go:400-412.                                                  *)
(***************************************************************************)
\* a SIGINT or SIGTERM arrives: main leaves `<-sigChan` and calls cancel()
SignalReceived ==
    /\ proc = "running" /\ mainPc = "waitsig"
    /\ mainPc' = "grace"
    /\ cancelled' = TRUE
    /\ UNCHANGED <<proc, loopVars, fetchVars, sinkVars, cycleLog, envVars, pureVars, upstream>>

\* main sleeps and returns, main.go:408-412: it waits for no goroutine
MainWaitsForScraper(scraperPc) == scraperPc = "stopped"

MainMayExit(scraperPc) == TRUE

\* time.Sleep(2 * time.Second) returns and main returns: the process exits
GraceOver ==
    /\ proc = "running" /\ mainPc = "grace"
    /\ MainMayExit(pc)
    /\ ProcessEnds("exited")

Next ==
    \/ EnumAttempt
    \/ EnumBackoffDone
    \/ InitMaps
    \/ Select
    \/ CycleBegins
    \/ NextMetric
    \/ NextIface
    \/ QueryAttempt
    \/ QueryBackoffDone
    \/ Handle
    \/ SignalReceived
    \/ GraceOver

Spec == Init /\ [][Next]_vars

TypeOK ==
    /\ proc \in {"running", "exited", "fatal"}
    /\ retries \in 0 .. MaxRetries
    /\ requests \in 0 .. MaxRetries
    /\ sleeps \in 0 .. MaxRetries
    /\ polls \in 0 .. MaxPolls
    /\ faults \in 0 .. MaxFaults


(***************************************************************************)
(* SpecCalc: calculateCounterVal applied to every pair of unsigned         *)
(* integers of the model's width.                                          *)
(***************************************************************************)
InitCalc ==
    /\ InitSys
    /\ backoff = NoBackoff
    /\ upstream = <<>>
    /\ calc \in {[pc |-> "call", prev |-> p, curr |-> c, counterVal |-> 0, toAdd |-> 0] :
                   p \in Uints, c \in Uints}

CalcReturns ==
    /\ calc.pc = "call"
    /\ LET res == calculateCounterVal(calc.prev, calc.curr)
       IN  calc' = [calc EXCEPT !.pc = "ret", !.counterVal = res[1], !.toAdd = res[2]]
    /\ UNCHANGED <<backoff, proc, mainVars, loopVars, fetchVars, sinkVars, cycleLog, envVars,
                   upstream>>

SpecCalc == InitCalc /\ [][CalcReturns]_vars

(***************************************************************************)
(* SpecBackoff: the backoff wait computed for every two attempt numbers    *)
(* a retry loop can reach.                                                 *)
(***************************************************************************)
InitBackoff ==
    /\ InitSys
    /\ calc = NoCalc
    /\ upstream = <<>>
    /\ backoff \in {[pc |-> "call", n |-> a, m |-> b, waitN |-> 0, waitM |-> 0] :
                      a \in 1 .. MaxRetries, b \in 1 .. MaxRetries}

BackoffReturns ==
    /\ backoff.pc = "call"
    /\ backoff' = [backoff EXCEPT !.pc = "ret",
                                  !.waitN = backoffWait(backoff.n),
                                  !.waitM = backoffWait(backoff.m)]
    /\ UNCHANGED <<calc, proc, mainVars, loopVars, fetchVars, sinkVars, cycleLog, envVars,
                   upstream>>

SpecBackoff == InitBackoff /\ [][BackoffReturns]_vars

(***************************************************************************)
(* SpecFilter: the upstream service lists any of the interface lists of    *)
(* up to MaxListLen distinct entries; the scraper enumerates them and      *)
(* polls each interface once, in a run without faults and signals.         *)
(***************************************************************************)
InterfacePool == {Eth0, Eth1, Eth2, AllIf}

FilterInputs ==
    {rsp \in UNION {[1 .. n -> InterfacePool] : n \in 0 .. MaxListLen} :
        \A j, k \in DOMAIN rsp : rsp[j] = rsp[k] => j = k}

InitFilter ==
    /\ InitSys
    /\ calc = NoCalc /\ backoff = NoBackoff
    /\ upstream \in FilterInputs

FirstPollsWithoutFault ==
    /\ proc' = "running" /\ retries' = 0 /\ faults' = 0
    /\ polls' <= Len(interfaces')

NextFilter ==
    \/ EnumAttempt /\ FirstPollsWithoutFault
    \/ InitMaps /\ FirstPollsWithoutFault
    \/ Select /\ FirstPollsWithoutFault
    \/ CycleBegins /\ FirstPollsWithoutFault
    \/ NextMetric /\ FirstPollsWithoutFault
    \/ NextIface /\ FirstPollsWithoutFault
    \/ QueryAttempt /\ FirstPollsWithoutFault
    \/ Handle /\ FirstPollsWithoutFault

SpecFilter == InitFilter /\ [][NextFilter]_vars

(***************************************************************************)
(* SpecSteady: longer runs (up to MaxSteadyPolls fetches of pairs) against *)
(* an upstream service that lists one interface and answers every request  *)
(* of a pair with a document that reports the counter, or fails it; no     *)
(* signal arrives, the enumeration and os.Hostname() succeed.              *)
(***************************************************************************)
InitSteady ==
    /\ InitSys
    /\ calc = NoCalc /\ backoff = NoBackoff
    /\ upstream = <<Eth0, AllIf>>

SteadyEnvironment ==
    /\ proc' = "running"
    /\ pc' = "enumerate" => retries' = 0
    /\ body' \notin {Sentinel, EmptyDoc}
    /\ \A m \in Metrics : \A key \in DOMAIN pub'[m] : key[1] = "host"

NextSteady ==
    \/ EnumAttempt /\ SteadyEnvironment
    \/ InitMaps /\ SteadyEnvironment
    \/ Select /\ SteadyEnvironment
    \/ CycleBegins /\ SteadyEnvironment
    \/ NextMetric /\ SteadyEnvironment
    \/ NextIfaceUpTo(MaxSteadyPolls) /\ SteadyEnvironment
    \/ QueryAttempt /\ SteadyEnvironment
    \/ QueryBackoffDone /\ SteadyEnvironment
    \/ Handle /\ SteadyEnvironment

SpecSteady == InitSteady /\ [][NextSteady]_vars

(***************************************************************************)
(* C1.  For all unsigned prev and curr, calculateCounterVal(prev, curr)    *)
(* returns the tracked value curr, and the delta curr - prev when          *)
(* curr >= prev, curr when curr < prev; the delta is never negative and    *)
(* never the wrapped-around result of an underflowing subtraction (it is   *)
(* at most curr).  prev=100, curr=5 gives (5, 5); prev=10, curr=37 gives   *)
(* (37, 27); prev = curr gives delta 0.                                    *)
(***************************************************************************)
C1_Reconcile ==
    calc.pc = "ret" =>
        /\ calc.counterVal = calc.curr
        /\ calc.curr >= calc.prev => calc.toAdd = calc.curr - calc.prev
        /\ calc.curr < calc.prev => calc.toAdd = calc.curr
        /\ calc.toAdd >= 0
        /\ calc.toAdd <= calc.curr
        /\ (calc.prev = 100 /\ calc.curr = 5) => (calc.counterVal = 5 /\ calc.toAdd = 5)
        /\ (calc.prev = 10 /\ calc.curr = 37) => (calc.counterVal = 37 /\ calc.toAdd = 27)
        /\ calc.prev = calc.curr => (calc.counterVal = calc.prev /\ calc.toAdd = 0)

C1_Witness ==
    calc.pc = "ret" /\ calc.prev = 100 /\ calc.curr = 5 /\ calc.toAdd = 5

(***************************************************************************)
(* C10.  The backoff wait of attempt n is the integer part of 1.2^n: it    *)
(* is 1 for n = 1, 2, 3, it never decreases when n grows, and it is 1469   *)
(* at n = 40.  (12^n \div 10^n is the integer part wherever 12^n fits the  *)
(* integers of TLC, n <= 8.)                                               *)
(***************************************************************************)
C10_BackoffWait ==
    backoff.pc = "ret" =>
        /\ backoff.n \in {1, 2, 3} => backoff.waitN = 1
        /\ backoff.n = 40 => backoff.waitN = 1469
        /\ backoff.n <= 8 => backoff.waitN = (12 ^ backoff.n) \div (10 ^ backoff.n)
        /\ backoff.n <= backoff.m => backoff.waitN <= backoff.waitM

C10_Witness ==
    backoff.pc = "ret" /\ backoff.n = 3 /\ backoff.m = 40 /\ backoff.waitM = 1469


(***************************************************************************)
(* Fairness: a goroutine that can take a step takes it (a request comes    *)
(* back, a sleep ends), and main leaves its grace sleep.  Nothing forces   *)
(* a signal to arrive.                                                     *)
(***************************************************************************)
ScraperStep ==
    \/ EnumAttempt
    \/ EnumBackoffDone
    \/ InitMaps
    \/ Select
    \/ CycleBegins
    \/ NextMetric
    \/ NextIface
    \/ QueryAttempt
    \/ QueryBackoffDone
    \/ Handle

FairSpec == Spec /\ WF_vars(ScraperStep) /\ WF_vars(GraceOver)

(***************************************************************************)
(* Vocabulary of the claims.                                               *)
(***************************************************************************)
Running == proc = "running"
LoopPcs == {"select", "sleep", "metric", "iface", "fetch", "handle", "stopped"}
MidCyclePcs == {"sleep", "metric", "iface", "fetch", "handle"}
InLoop == Running /\ pc \in LoopPcs
FetchRunning == fpc \in {"request", "sleep"}

\* a step in which the scraper handles the result of a fetch
HandleStep == pc = "handle" /\ pc' = "iface"
\* a step in which a request of the running logical fetch comes back
AttemptStep == fpc = "request" /\ proc' = "running" /\ requests' = requests + 1
\* a step in which a backoff sleep of the running logical fetch ends
WakeStep == fpc = "sleep" /\ proc' = "running" /\ fpc' # "sleep"

\* the value of the series (hostname, ifid) of metric m, 0 while it does not exist
SeriesValue(p, m, key) == IF key \in DOMAIN p[m] THEN p[m][key] ELSE 0
\* the published counter of the pair (m, ifid): all its hostname labels
PairPub(p, m, ifid) == SeriesValue(p, m, <<"host", ifid>>) + SeriesValue(p, m, <<"", ifid>>)
\* the pair the poller is working on
CurIfid == interfaces[i + 1]
CurTracked == metricsMap[metricName][i + 1]


(***************************************************************************)
(* C2.  Within one process lifetime every series of the published          *)
(* counters, once it exists, keeps existing and never decreases from one   *)
(* state to the next (so no two scrapes see it go down), and the published *)
(* counter of every (metric, interface) pair equals the sum of the deltas  *)
(* its reconciliations returned.                                           *)
(***************************************************************************)
C2_SumOfDeltas ==
    InLoop =>
        \A m \in Metrics : \A k \in 1 .. Len(interfaces) :
            PairPub(pub, m, interfaces[k]) = deltas[m][k]

C2_NeverDecreases ==
    (Running /\ proc' = "running") =>
        \A m \in Metrics : \A key \in DOMAIN pub[m] :
            key \in DOMAIN pub'[m] /\ pub'[m][key] >= pub[m][key]

C2_PublishedMonotone == [](C2_SumOfDeltas) /\ [][C2_NeverDecreases]_vars

\* a pair whose upstream counter was reset: the published counter stays atop
C2_Witness ==
    /\ InLoop /\ Len(interfaces) >= 1
    /\ \E m \in Metrics :
         metricsMap[m][1] = 0 /\ PairPub(pub, m, interfaces[1]) >= 1

(***************************************************************************)
(* C3.  When the fetch of a pair has exhausted its retries and returned a  *)
(* transport error, the poller's handling of it leaves the pair's tracked  *)
(* value unchanged, adds no delta to its published counter and goes on to  *)
(* the next pair.                                                          *)
(***************************************************************************)
C3_FailedFetchSkipsPair ==
    [][(Running /\ pc = "handle" /\ err = TransportErr /\ HandleStep) =>
          /\ metricsMap' = metricsMap
          /\ PairPub(pub', metricName, CurIfid) = PairPub(pub, metricName, CurIfid)
          /\ pc' = "iface" /\ i' = i + 1]_vars

(***************************************************************************)
(* C4.  When the fetch of a pair returned the sentinel body "1", the       *)
(* poller's handling of it changes no tracked value and no published       *)
(* counter, of this pair or of any other.                                  *)
(***************************************************************************)
C4_SentinelSkips ==
    [][(Running /\ pc = "handle" /\ body = Sentinel /\ HandleStep) =>
          /\ metricsMap' = metricsMap
          /\ pub' = pub
          /\ deltas' = deltas]_vars

\* the sentinel arrives for a pair whose tracked value is not the initial 0
C4_Witness ==
    Running /\ pc = "handle" /\ body = Sentinel /\ CurTracked > 0

(***************************************************************************)
(* C6.  A response that arrives without transport error ends the logical   *)
(* fetch at once, sentinel or not: a fetch that returns without error      *)
(* after k requests has slept k-1 times and counted k-1 retries; the       *)
(* sentinel is then skipped by the poller, which moves to the next         *)
(* interface without fetching again for this pair.                         *)
(***************************************************************************)
C6_CountsAtReturn ==
    (Running /\ pc = "handle" /\ err = NoErr) =>
        (requests >= 1 /\ sleeps = requests - 1 /\ retries = requests - 1)

C6_SentinelReturnsAtOnce ==
    (Running /\ pc = "fetch" /\ AttemptStep /\ body' = Sentinel /\ err' = NoErr) =>
        (pc' = "handle" /\ fpc' = "idle" /\ retries' = retries /\ sleeps' = sleeps)

C6_SentinelIsSkipped ==
    (Running /\ pc = "handle" /\ body = Sentinel /\ HandleStep) =>
        (pc' = "iface" /\ i' = i + 1 /\ fpc' = "idle" /\ polls' = polls)

C6_SentinelNotRetried ==
    /\ [](C6_CountsAtReturn)
    /\ [][C6_SentinelReturnsAtOnce]_vars
    /\ [][C6_SentinelIsSkipped]_vars

\* the sentinel is the answer to the third request of a fetch
C6_Witness ==
    Running /\ pc = "handle" /\ body = Sentinel /\ err = NoErr
      /\ requests = 3 /\ sleeps = 2

(***************************************************************************)
(* C8.  An update made while the hostname lookup fails is dropped: no      *)
(* delta is added to any series.  The series labelled with the empty       *)
(* hostname are written by such updates only, so they would all stay 0.    *)
(***************************************************************************)
C8_HostnameFailureDropsUpdate ==
    \A m \in Metrics : \A key \in DOMAIN pub[m] :
        key[1] = "" => pub[m][key] = 0

(***************************************************************************)
(* C9.  From the start of the poll loop on, the tracked state has exactly  *)
(* the four metrics as keys and, for each, one entry per enumerated        *)
(* interface; the entries are created with value 0, and afterwards no      *)
(* entry is added or removed and the interface list does not change.       *)
(***************************************************************************)
C9_OneEntryPerPair ==
    InLoop =>
        /\ DOMAIN metricsMap = Metrics
        /\ \A m \in Metrics : DOMAIN metricsMap[m] = 1 .. Len(interfaces)

C9_CreatedZero ==
    (Running /\ pc = "init" /\ pc' = "select") =>
        \A m \in Metrics : \A k \in 1 .. Len(interfaces') : metricsMap'[m][k] = 0

C9_ShapeFixed ==
    (InLoop /\ proc' = "running") =>
        /\ interfaces' = interfaces
        /\ DOMAIN metricsMap' = DOMAIN metricsMap
        /\ \A m \in DOMAIN metricsMap : DOMAIN metricsMap'[m] = DOMAIN metricsMap[m]

C9_TrackedStateShape ==
    /\ [](C9_OneEntryPerPair)
    /\ [][C9_CreatedZero]_vars
    /\ [][C9_ShapeFixed]_vars

\* two interfaces, and an entry has been overwritten
C9_Witness ==
    /\ InLoop /\ Len(interfaces) = 2
    /\ \E m \in Metrics : metricsMap[m][2] > 0


(***************************************************************************)
(* C5.  A logical fetch (of either retry loop) always ends.  A request     *)
(* that comes back without transport error ends it at once, with the body  *)
(* of that request, without a further wait; no request follows the         *)
(* return.  A fetch sends at most 40 requests, it returns a transport      *)
(* error only after 40 of them failed, and it then hands the error to its  *)
(* caller in the running process.                                          *)
(***************************************************************************)
C5_Bounded ==
    requests <= MaxRetries /\ retries <= MaxRetries /\ sleeps <= MaxRetries

C5_ErrorOnlyAfterAllRetries ==
    (Running /\ fpc = "idle" /\ err = TransportErr) =>
        (requests = MaxRetries /\ pc \in {"handle", "init"})

C5_SuccessReturnsAtOnce ==
    (Running /\ AttemptStep /\ err' = NoErr) =>
        /\ fpc' = "idle"
        /\ retries' = retries /\ sleeps' = sleeps /\ waitTime' = waitTime
        /\ \/ pc = "fetch" /\ pc' = "handle" /\ body' \in MetricBodies(metricName)
           \/ pc = "enumerate" /\ pc' = "init"

C5_NoRequestAfterReturn ==
    (Running /\ fpc = "idle") =>
        \/ requests' = requests /\ sleeps' = sleeps
        \/ requests' = 0 /\ sleeps' = 0

C5_ExhaustionReturnsError ==
    (Running /\ WakeStep /\ retries >= MaxRetries) =>
        /\ fpc' = "idle" /\ err' = TransportErr
        /\ requests' = MaxRetries
        /\ \/ pc = "fetch" /\ pc' = "handle"
           \/ pc = "enumerate" /\ pc' = "init"

C5_FetchTerminates ==
    /\ [](C5_Bounded)
    /\ [](C5_ErrorOnlyAfterAllRetries)
    /\ [][C5_SuccessReturnsAtOnce]_vars
    /\ [][C5_NoRequestAfterReturn]_vars
    /\ [][C5_ExhaustionReturnsError]_vars
    /\ (FetchRunning ~> ~FetchRunning)

\* a per-interface fetch has returned the error of its 40th failed request
C5_Witness ==
    Running /\ pc = "handle" /\ fpc = "idle" /\ err = TransportErr /\ requests = 40

(***************************************************************************)
(* C7 as claimed.  Once cancellation is raised while a cycle is in flight,  *)
(* the poller finishes the cycle and eventually reaches the stopped state. *)
(***************************************************************************)
C7_CancelledPollerStops == (cancelled /\ pc \in MidCyclePcs) ~> (pc = "stopped")

(***************************************************************************)
(* C7 as amended.  Cancellation is observed only at the select between     *)
(* two cycles: the poller enters the stopped state from the select only,   *)
(* a cycle in flight is left only at its end (no key left in the outer     *)
(* loop, the inner loops past the last interface), no cycle starts at a    *)
(* select that finds the signal raised, the stopped poller stays stopped,  *)
(* and after the signal the poller reaches the stopped state unless the    *)
(* process ends first.                                                     *)
(***************************************************************************)
C7_StopsOnlyAtBoundary ==
    (pc # "stopped" /\ pc' = "stopped") => (pc = "select" /\ cancelled)

C7_CycleRunsToItsEnd ==
    (Running /\ proc' = "running" /\ pc \in MidCyclePcs) =>
        /\ pc' \notin MidCyclePcs => (pc = "metric" /\ todo = {} /\ pc' = "select")
        /\ (pc = "iface" /\ pc' = "metric") => i = Len(interfaces)
        /\ (pc = "metric" /\ pc' = "iface") => (metricName' \in todo /\ i' = 0)

C7_NoCycleAfterCheck ==
    (Running /\ cancelled /\ pc = "select") => pc' # "sleep"

C7_StoppedStays ==
    (Running /\ pc = "stopped" /\ proc' = "running") => pc' = "stopped"

C7_CancelAtCycleBoundary ==
    /\ [][C7_StopsOnlyAtBoundary]_vars
    /\ [][C7_CycleRunsToItsEnd]_vars
    /\ [][C7_NoCycleAfterCheck]_vars
    /\ [][C7_StoppedStays]_vars
    /\ (cancelled ~> (pc = "stopped" \/ ~Running))

\* the signal came after the first select (no poll precedes it) and the
\* poller stopped after the four polls of the cycle over one interface
C7_Witness ==
    Running /\ cancelled /\ pc = "stopped" /\ Len(interfaces) = 1 /\ polls = 4

(***************************************************************************)
(* More vocabulary: a logical fetch has given up (its 40 requests failed   *)
(* and it has returned the error to the scraper); the scraper's step that  *)
(* puts a logical fetch to sleep.                                          *)
(***************************************************************************)
FetchGaveUp ==
    Running /\ fpc = "idle" /\ err = TransportErr /\ pc \in {"handle", "init"}

SleepStep == AttemptStep /\ fpc' = "sleep"

(***************************************************************************)
(* C11 as claimed.  When every attempt of a logical fetch has failed, the  *)
(* waits of the fetch add up to about 25 minutes, roughly 1500 seconds     *)
(* (taken here as 1500 seconds give or take a fifth).                      *)
(***************************************************************************)
C11_TotalWaitAbout25Minutes ==
    FetchGaveUp => (waited >= 1200 /\ waited <= 1800)

(***************************************************************************)
(* C11 as amended.  Every failed request adds the wait of its attempt to   *)
(* the time the fetch has slept; when all 40 attempts have failed the      *)
(* fetch has slept 40 times, 8792 seconds in all (about 2 hours and 27     *)
(* minutes), of which the last wait alone is 1469 seconds (about 25        *)
(* minutes); no fetch sleeps longer.                                       *)
(***************************************************************************)
C11_WaitsAddUp ==
    (Running /\ SleepStep) =>
        (waited' = waited + waitTime' /\ waitTime' = backoffWait(retries'))

C11_AtGiveUp ==
    /\ FetchGaveUp => (sleeps = MaxRetries /\ waited = 8792 /\ waitTime = 1469)
    /\ waited <= 8792

C11_CumulativeWait == [](C11_AtGiveUp) /\ [][C11_WaitsAddUp]_vars

\* a per-interface fetch has given up after sleeping 8792 seconds
C11_Witness ==
    FetchGaveUp /\ pc = "handle" /\ metricName \in Metrics /\ waited = 8792

(***************************************************************************)
(* C12.  When the enumeration has given up (all its 40 requests failed),   *)
(* the scraper does not end the process: it takes the empty interface      *)
(* list, builds a tracked state with no entry under each of the four       *)
(* metrics and enters its loop.  From then on it stays so: no fetch is     *)
(* begun, no request is sent, no series is created or changed.  The select *)
(* still stops the scraper once the signal is raised, and after the signal *)
(* the scraper reaches the stopped state unless the process ends first.    *)
(***************************************************************************)
EnumFailed == InLoop /\ scraperErr = TransportErr /\ interfaces = <<>>

C12_FailureNotFatal ==
    (Running /\ pc = "init" /\ err = TransportErr) =>
        /\ proc' # "fatal"
        /\ (proc' = "running" /\ pc' # pc) =>
              /\ pc' = "select" /\ EnumFailed'
              /\ \A m \in Metrics : metricsMap'[m] = <<>>

C12_NothingPolled ==
    EnumFailed =>
        /\ pc \notin {"fetch", "handle"} /\ fpc = "idle" /\ polls = 0
        /\ DOMAIN metricsMap = Metrics
        /\ \A m \in Metrics : metricsMap[m] = <<>> /\ DOMAIN pub[m] = {}

C12_StaysSo ==
    (EnumFailed /\ proc' = "running") =>
        (EnumFailed' /\ pub' = pub /\ requests' = requests /\ polls' = polls)

C12_SelectStops ==
    (EnumFailed /\ cancelled /\ pc = "select" /\ proc' = "running") =>
        pc' \in {"select", "stopped"}

C12_EnumerationFailure ==
    /\ [][C12_FailureNotFatal]_vars
    /\ [](C12_NothingPolled)
    /\ [][C12_StaysSo]_vars
    /\ [][C12_SelectStops]_vars
    /\ ((EnumFailed /\ cancelled) ~> (pc = "stopped" \/ ~Running))

\* after the failed enumeration the outer loop of a cycle has yielded its
\* four keys, none with an interface to fetch, and the signal is raised
C12_Witness ==
    EnumFailed /\ pc = "metric" /\ todo = {} /\ cancelled /\ polls = 0

(***************************************************************************)
(* C13.  The enumeration returns the ifid of every listed interface whose  *)
(* ifname is not "view:all", and of no other, in the order of the list     *)
(* ([{ifid 0, eth0}, {ifid 9, view:all}] gives [0]).  The scraper keeps    *)
(* that list: its tracked state has one entry per kept interface, and      *)
(* every series it creates carries the ifid of a listed interface that is  *)
(* not "view:all".                                                         *)
(***************************************************************************)
NotViewAll(entry) == entry.ifname # "view:all"

IdsOf(entries) == [k \in 1 .. Len(entries) |-> entries[k].ifid]

C13_Returned ==
    (Running /\ pc = "enumerate" /\ AttemptStep /\ err' = NoErr) =>
        /\ interfaces' = IdsOf(SelectSeq(upstream, NotViewAll))
        /\ upstream = <<Eth0, AllIf>> => interfaces' = <<0>>

C13_Kept ==
    (InLoop /\ ~EnumFailed) =>
        /\ interfaces = IdsOf(SelectSeq(upstream, NotViewAll))
        /\ \A m \in Metrics : Len(metricsMap[m]) = Len(SelectSeq(upstream, NotViewAll))
        /\ \A k \in DOMAIN upstream :
              ~NotViewAll(upstream[k]) =>
                  /\ \A j \in DOMAIN interfaces : interfaces[j] # upstream[k].ifid
                  /\ \A m \in Metrics : \A key \in DOMAIN pub[m] : key[2] # upstream[k].ifid
        /\ \A m \in Metrics : \A key \in DOMAIN pub[m] :
              \E k \in DOMAIN upstream : NotViewAll(upstream[k]) /\ upstream[k].ifid = key[2]

C13_ViewAllFiltered == [][C13_Returned]_vars /\ [](C13_Kept)

\* view:all was listed between two interfaces, which both got a series
C13_Witness ==
    /\ InLoop /\ upstream = <<Eth1, AllIf, Eth0>> /\ interfaces = <<1, 0>>
    /\ \E m \in Metrics : DOMAIN pub[m] = {<<"host", 1>>, <<"host", 0>>}

(***************************************************************************)
(* C14.  A logical fetch waits only before a retry: whenever a backoff     *)
(* sleep of a fetch ends, the fetch sends another request, and a fetch     *)
(* that has given up has slept once less than it has sent requests (no     *)
(* wait follows its last failed request).                                  *)
(***************************************************************************)
C14_RequestFollowsWait == (Running /\ WakeStep) => fpc' = "request"

C14_NoWaitAfterLastFailure == FetchGaveUp => sleeps = requests - 1

C14_WaitOnlyBeforeRetry ==
    [][C14_RequestFollowsWait]_vars /\ [](C14_NoWaitAfterLastFailure)

(***************************************************************************)
(* C15.  The scraper fetches one pair at a time: a request is out or a     *)
(* backoff sleep runs only while the scraper is inside the enumeration or  *)
(* inside the fetch of the current pair, and a fetch begins only when no   *)
(* other is running.  Within a cycle no pair is fetched twice, no pair is  *)
(* reconciled more often than it was fetched, and at the end of the cycle  *)
(* every pair has been fetched exactly once.  The scan is by metric, then  *)
(* by interface: the metrics still to come have no pair fetched, the       *)
(* metrics already yielded have all their pairs fetched, and of the        *)
(* current metric exactly the interfaces up to the current index.          *)
(***************************************************************************)
Fetched(m, k) == cycleLog[m][k].fetches
Reconciled(m, k) == cycleLog[m][k].recons
Ifaces == 1 .. Len(interfaces)

C15_OneFetchAtATime ==
    /\ FetchRunning => (Running /\ pc \in {"enumerate", "fetch"})
    /\ (Running /\ pc = "fetch") => FetchRunning
    /\ (Running /\ pc = "handle") => fpc = "idle"

C15_FetchBeginsWhenIdle ==
    (Running /\ pc # "fetch" /\ pc' = "fetch") =>
        /\ fpc = "idle" /\ fpc' = "request" /\ pc = "iface"
        /\ Fetched(metricName, i + 1) = 0

C15_AtMostOncePerCycle ==
    InLoop => \A m \in Metrics : \A k \in Ifaces :
        Fetched(m, k) <= 1 /\ Reconciled(m, k) <= Fetched(m, k)

C15_ExactlyOnceAtCycleEnd ==
    (InLoop /\ pc = "metric" /\ todo = {}) =>
        \A m \in Metrics : \A k \in Ifaces : Fetched(m, k) = 1

C15_ScanOrder ==
    (InLoop /\ pc \in {"metric", "iface", "fetch", "handle"}) =>
        \A m \in Metrics : \A k \in Ifaces :
            Fetched(m, k) =
                IF m \in todo THEN 0
                ELSE IF m # metricName THEN 1
                ELSE IF k <= i \/ (k = i + 1 /\ pc \in {"fetch", "handle"}) THEN 1
                ELSE 0

C15_ReconciledInPlace ==
    (Running /\ proc' = "running" /\ cycleLog' # cycleLog /\ pc = "handle") =>
        /\ Reconciled(metricName, i + 1) = 0 /\ Fetched(metricName, i + 1) = 1
        /\ cycleLog' = [cycleLog EXCEPT ![metricName][i + 1].recons = 1]

C15_SequentialFetches ==
    /\ [](C15_OneFetchAtATime)
    /\ [][C15_FetchBeginsWhenIdle]_vars
    /\ [](C15_AtMostOncePerCycle)
    /\ [](C15_ExactlyOnceAtCycleEnd)
    /\ [](C15_ScanOrder)
    /\ [][C15_ReconciledInPlace]_vars

\* mid-cycle over two interfaces: the first metric is done, the second
\* interface of the second metric is being fetched
C15_Witness ==
    /\ InLoop /\ pc = "fetch" /\ Len(interfaces) = 2 /\ i = 1 /\ Cardinality(todo) = 2
    /\ \E m \in Metrics \ (todo \cup {metricName}) : Reconciled(m, 1) = 1 /\ Reconciled(m, 2) = 1

(***************************************************************************)
(* C16.  Every logical fetch counts its attempts from 0, whether or not    *)
(* the fetch before it met failures: it begins with no retry, no request   *)
(* and no wait behind it, its first wait is the 1 second of attempt 1,     *)
(* it has sent as many requests as it counts retries when it sleeps, one   *)
(* more request is always left while it runs, and it gives up only after   *)
(* all 40 requests.                                                        *)
(***************************************************************************)
C16_BeginsAtZero ==
    (Running /\ pc = "iface" /\ pc' = "fetch") =>
        /\ retries' = 0 /\ requests' = 0 /\ sleeps' = 0
        /\ waitTime' = 0 /\ waited' = 0

C16_FirstWaitIsOne ==
    (FetchRunning /\ fpc = "sleep" /\ sleeps = 1) => (retries = 1 /\ waitTime = 1)

C16_BudgetIsWhole ==
    /\ (FetchRunning /\ fpc = "request") => (requests = retries /\ retries < MaxRetries)
    /\ (FetchRunning /\ fpc = "sleep") => (requests = retries /\ sleeps = retries)
    /\ FetchGaveUp => requests = MaxRetries

C16_NoBackoffMemory ==
    /\ [][C16_BeginsAtZero]_vars
    /\ [](C16_FirstWaitIsOne)
    /\ [](C16_BudgetIsWhole)

\* the enumeration met failures, and the fetch of the first pair is in its
\* first wait, of 1 second
C16_Witness ==
    /\ Running /\ pc = "fetch" /\ prevFailed
    /\ fpc = "sleep" /\ sleeps = 1 /\ waitTime = 1 /\ requests = 1

(***************************************************************************)
(* C17.  When the signal arrives main raises the cancellation and starts   *)
(* its grace sleep; the process exits from that sleep and from nowhere     *)
(* else, and main can leave the sleep whatever the scraper is doing: once  *)
(* the signal is raised the process ends, also when the scraper is in the  *)
(* enumeration or in the backoff sleep of a fetch.                         *)
(***************************************************************************)
C17_SignalCancels ==
    (Running /\ mainPc = "waitsig" /\ proc' = "running" /\ mainPc' # mainPc) =>
        (cancelled' /\ mainPc' = "grace" /\ ~cancelled)

C17_ExitFollowsGrace ==
    (Running /\ proc' = "exited") => (mainPc = "grace" /\ cancelled)

C17_ExitNeedsNoScraper ==
    /\ (Running /\ mainPc = "grace") => ENABLED GraceOver
    /\ (Running /\ cancelled) => mainPc = "grace"

C17_ExitAfterGrace ==
    /\ [][C17_SignalCancels]_vars
    /\ [][C17_ExitFollowsGrace]_vars
    /\ [](C17_ExitNeedsNoScraper)
    /\ (cancelled ~> ~Running)

\* the signal has come while the fetch of a pair is in its last backoff
\* sleep, and main is in its grace sleep
C17_Witness ==
    /\ Running /\ cancelled /\ mainPc = "grace"
    /\ pc = "fetch" /\ fpc = "sleep" /\ waitTime = 1469

(***************************************************************************)
(* C18.  The published counter of a pair never exceeds the number of       *)
(* events the upstream counter of the pair has counted: not even the       *)
(* least number of events that the reports of the upstream service allow   *)
(* (every report taken as the counter's growth since the report before,    *)
(* or as its growth since a reset when it is lower than that report).      *)
(***************************************************************************)
C18_OnlyUndercounts ==
    InLoop => \A m \in Metrics : \A k \in Ifaces :
        PairPub(pub, m, interfaces[k]) <= hist[m][k].events

(***************************************************************************)
(* C19.  For every pair, the published counter (its series summed over     *)
(* the hostname labels) is at least the tracked value, and it equals the   *)
(* tracked value as long as no value read for the pair was lower than the  *)
(* value tracked at that time.                                             *)
(***************************************************************************)
C19_PublishedCoversTracked ==
    InLoop => \A m \in Metrics : \A k \in Ifaces :
        /\ PairPub(pub, m, interfaces[k]) >= metricsMap[m][k]
        /\ ~hist[m][k].lower => PairPub(pub, m, interfaces[k]) = metricsMap[m][k]

\* one pair has seen its counter fall from 1 to 0 (published 1, tracked 0),
\* another has not and stands at 1 on both sides
C19_Witness ==
    /\ InLoop /\ Len(interfaces) = 1
    /\ \E m1, m2 \in Metrics :
         /\ hist[m1][1].lower /\ hist[m1][1].seen = 0
         /\ PairPub(pub, m1, interfaces[1]) = 1 /\ metricsMap[m1][1] = 0
         /\ ~hist[m2][1].lower
         /\ PairPub(pub, m2, interfaces[1]) = 1 /\ metricsMap[m2][1] = 1

====
